---- MODULE Spec2Model ----
(***************************************************************************)
(* A model of layers.py: the layer objects Conv, AvgPool, Fc and TanH and  *)
(* the optimizer AdamGD, each as one Python object that a caller drives    *)
(* through any sequence of method calls.                                   *)
(*                                                                         *)
(* A numpy array is a record [shape, v]: its shape and the function from   *)
(* the 0-based index tuples of that shape to its elements.  A Python       *)
(* exception is a result of kind "error"; what a method had already        *)
(* written to the object when it raised stays written.  The arrays that    *)
(* the code shares by reference (the 'grad' entries) live in a heap.       *)
(***************************************************************************)
EXTENDS Integers, Sequences, FiniteSets, TLC

VARIABLES
    self,    \* the fields of the object under test
    heap,    \* the arrays reachable through a reference
    ret,     \* what the last call returned or raised
    call,    \* the last call: its method and its argument
    ncalls,  \* calls made on the object so far
    old,     \* self and heap as they were when the last call began
    hist,    \* the backward calls so far, and whether all of them returned
    kept     \* the first tuple a backward call returned, as the caller saw it

vars == <<self, heap, ret, call, ncalls, old, hist, kept>>

\* Calls made on one object.
MaxCalls == 3

(***************************************************************************)
(* Python and numpy values.                                                *)
(***************************************************************************)
None == [none |-> TRUE]

Max(a, b) == IF a >= b THEN a ELSE b

Min(a, b) == IF a <= b THEN a ELSE b

\* int(a / b) for b > 0: float division, then truncation toward zero.
TruncDiv(a, b) == IF a >= 0 THEN a \div b ELSE -((-a) \div b)

\* The index tuples of an array of the given shape (ranks 0 to 4).
Idx(shape) ==
    CASE Len(shape) = 0 -> {<<>>}
      [] Len(shape) = 1 -> {<<i>> : i \in 0..(shape[1] - 1)}
      [] Len(shape) = 2 -> {<<i, j>> : i \in 0..(shape[1] - 1), j \in 0..(shape[2] - 1)}
      [] Len(shape) = 3 -> {<<k, a, b>> : k \in 0..(shape[1] - 1), a \in 0..(shape[2] - 1),
                                          b \in 0..(shape[3] - 1)}
      [] Len(shape) = 4 -> {<<i, c, h, w>> : i \in 0..(shape[1] - 1), c \in 0..(shape[2] - 1),
                                             h \in 0..(shape[3] - 1), w \in 0..(shape[4] - 1)}

\* np.zeros(shape)
Zeros(shape) == [shape |-> shape, v |-> [ix \in Idx(shape) |-> 0]]

RECURSIVE SumOver(_, _)
\* The sum of f over the index set S.
SumOver(S, f) ==
    IF S = {} THEN 0
    ELSE LET x == CHOOSE y \in S : TRUE IN f[x] + SumOver(S \ {x}, f)

\* The length of the slice start:end of an axis of length n (0 <= start <= end).
SliceLen(start, end, n) == Max(0, Min(end, n) - Min(start, n))

\* X[i, :, hs:he, ws:we] of a rank-4 array, for 0 <= i < X.shape[0].
Window(X, i, hs, he, ws, we) ==
    LET shp == <<X.shape[2], SliceLen(hs, he, X.shape[3]), SliceLen(ws, we, X.shape[4])>>
    IN  [shape |-> shp, v |-> [ix \in Idx(shp) |-> X.v[<<i, ix[1], hs + ix[2], ws + ix[3]>>]]]

\* A[c, ...] of a rank-4 array, for 0 <= c < A.shape[0].
Sub(A, c) ==
    LET shp == <<A.shape[2], A.shape[3], A.shape[4]>>
    IN  [shape |-> shp, v |-> [ix \in Idx(shp) |-> A.v[<<c, ix[1], ix[2], ix[3]>>]]]

\* numpy broadcasting of two rank-3 shapes: whether a * b is defined.
Broadcastable(sa, sb) == \A d \in 1..3 : sa[d] = sb[d] \/ sa[d] = 1 \/ sb[d] = 1

\* The broadcast shape of two broadcastable rank-3 shapes.
BroadcastShape(sa, sb) == [d \in 1..3 |-> IF sa[d] = 1 THEN sb[d] ELSE sa[d]]

\* Whether an operand of shape src can be added in place to a target of shape dst.
BroadcastsTo(src, dst) == \A d \in 1..3 : src[d] = dst[d] \/ src[d] = 1

\* The element of a that a broadcast reads at index ix of the result.
BGet(a, ix) == a.v[[d \in 1..3 |-> IF a.shape[d] = 1 THEN 0 ELSE ix[d]]]

\* np.sum(a * b) of two broadcastable rank-3 integer arrays.
SumProd(a, b) ==
    LET shp == BroadcastShape(a.shape, b.shape)
    IN  SumOver(Idx(shp), [ix \in Idx(shp) |-> BGet(a, ix) * BGet(b, ix)])

\* np.rot90(m): one rotation by 90 degrees in the plane of axes 0 and 1, the
\* default axes, of a rank-4 array: transpose(flip(m, 1)) on those two axes.
rot90(m) ==
    LET shp == <<m.shape[2], m.shape[1], m.shape[3], m.shape[4]>>
    IN  [shape |-> shp,
         v |-> [ix \in Idx(shp) |-> m.v[<<ix[2], m.shape[2] - 1 - ix[1], ix[3], ix[4]>>]]]

(***************************************************************************)
(* Results of a call.                                                      *)
(***************************************************************************)
NoRef == 0

Refs == 1..4

Raise(exc) == [kind |-> "error", exc |-> exc, val |-> None, dW |-> NoRef, db |-> NoRef]

Return(val) == [kind |-> "ok", exc |-> "", val |-> val, dW |-> NoRef, db |-> NoRef]

Return3(val, dW, db) == [kind |-> "ok", exc |-> "", val |-> val, dW |-> dW, db |-> db]

NoCall == [kind |-> "none", exc |-> "", val |-> None, dW |-> NoRef, db |-> NoRef]

(***************************************************************************)
(* Conv                                                                    *)
(***************************************************************************)
\* Conv.__init__: the weight and bias values are the random draws.
Conv_init(n_F, f, n_C, s, p, Wval, bval) ==
    [self |-> [cls |-> "Conv", n_F |-> n_F, f |-> f, n_C |-> n_C, s |-> s, p |-> p,
               W |-> [val |-> Wval, grad |-> 1],
               b |-> [val |-> bval, grad |-> 2],
               cache |-> None],
     heap |-> [r \in Refs |-> CASE r = 1 -> Zeros(<<n_F, n_C, f, f>>)
                                [] r = 2 -> Zeros(<<n_F, 1>>)
                                [] OTHER -> None]]

\* The output height or width Conv.forward computes for an input one of n_prev.
Conv_n_out(o, n_prev) == TruncDiv(n_prev + 2 * o.p - o.f, o.s) + 1

\* The receptive field X[i, :, h_start:h_end, w_start:w_end] of output cell ix.
Conv_window(o, X, ix) ==
    Window(X, ix[1], ix[3] * o.s, ix[3] * o.s + o.f, ix[4] * o.s, ix[4] * o.s + o.f)

\* out[i, c, h, w] of Conv.forward, lines 55 and 56.
Conv_cell(o, X, ix) ==
    SumProd(Conv_window(o, X, ix), Sub(o.W.val, ix[2])) + o.b.val.v[<<ix[2], 0>>]

\* Conv.forward(X): the object and the result after the call.  The product of
\* line 55 raises where numpy cannot broadcast the window against the filter.
Conv_forward(o, hp, X) ==
    LET o1 == [o EXCEPT !.cache = X]
        shp == <<X.shape[1], o.n_F, Conv_n_out(o, X.shape[3]), Conv_n_out(o, X.shape[4])>>
    IN  IF shp[3] < 0 \/ shp[4] < 0
        THEN [self |-> o1, heap |-> hp, ret |-> Raise("ValueError")]
        ELSE IF \E ix \in Idx(shp) :
                  ~Broadcastable(Conv_window(o, X, ix).shape, Sub(o.W.val, ix[2]).shape)
        THEN [self |-> o1, heap |-> hp, ret |-> Raise("ValueError")]
        ELSE [self |-> o1, heap |-> hp,
              ret |-> Return([shape |-> shp, v |-> [ix \in Idx(shp) |-> Conv_cell(o, X, ix)]])]

\* The n-th index tuple, in loop order, of the four nested loops over shape.
LoopIndex(shape, n) ==
    <<n \div (shape[2] * shape[3] * shape[4]),
      (n \div (shape[3] * shape[4])) % shape[2],
      (n \div shape[4]) % shape[3],
      n % shape[4]>>

\* target[c, ...] += rhs, rhs broadcast, for a rank-4 target and a rank-3 rhs.
AddAtSub(target, c, rhs) ==
    [target EXCEPT !.v = [ix \in DOMAIN target.v |->
        IF ix[1] = c THEN target.v[ix] + BGet(rhs, <<ix[2], ix[3], ix[4]>>)
        ELSE target.v[ix]]]

\* target[i, :, hs:he, ws:we] += rhs, rhs broadcast.
AddAtWindow(target, i, hs, he, ws, we, rhs) ==
    [target EXCEPT !.v = [ix \in DOMAIN target.v |->
        IF ix[1] = i /\ ix[3] >= hs /\ ix[3] < he /\ ix[4] >= ws /\ ix[4] < we
        THEN target.v[ix] + BGet(rhs, <<ix[2], ix[3] - hs, ix[4] - ws>>)
        ELSE target.v[ix]]]

\* dout[i, c, h, w] * A for a rank-3 array A.
Scale(k, A) == [A EXCEPT !.v = [ix \in DOMAIN A.v |-> k * A.v[ix]]]

\* One pass of the body of the loops of Conv.backward, lines 84 to 92, on the
\* weight gradient Wg and the input gradient dX; exc is set when a line raises.
Conv_body(o, X, dout, W_rot, st, ix) ==
    LET i == ix[1]
        c == ix[2]
        h_start == ix[3] * o.s
        h_end == h_start + o.f
        w_start == ix[4] * o.s
        w_end == w_start + o.f
    IN  IF c >= st.Wg.shape[1] \/ i >= X.shape[1]
        THEN [st EXCEPT !.exc = "IndexError"]
        ELSE
          LET win == Window(X, i, h_start, h_end, w_start, w_end)
              d == dout.v[ix]
              Wg1 == AddAtSub(st.Wg, c, Scale(d, win))
              krn == Sub(W_rot, c)
          IN  IF ~BroadcastsTo(win.shape, Sub(st.Wg, c).shape)
              THEN [st EXCEPT !.exc = "ValueError"]
              ELSE IF ~BroadcastsTo(krn.shape, win.shape)
              THEN [st EXCEPT !.Wg = Wg1, !.exc = "ValueError"]
              ELSE [st EXCEPT !.Wg = Wg1,
                              !.dX = AddAtWindow(st.dX, i, h_start, h_end, w_start, w_end,
                                                 Scale(d, krn))]

RECURSIVE Conv_loop(_, _, _, _, _, _)
\* The loops of Conv.backward from their n-th pass on, stopping where a pass raises.
Conv_loop(o, X, dout, W_rot, st, n) ==
    IF st.exc # "" \/ n >= Cardinality(Idx(dout.shape)) THEN st
    ELSE Conv_loop(o, X, dout, W_rot,
                   Conv_body(o, X, dout, W_rot, st, LoopIndex(dout.shape, n)), n + 1)

\* np.sum(dout[:, c, ...])
SumChannel(dout, c) ==
    LET S == {ix \in Idx(dout.shape) : ix[2] = c}
    IN  SumOver(S, [ix \in S |-> dout.v[ix]])

RECURSIVE Conv_db(_, _, _, _)
\* The bias loop of Conv.backward, lines 94 and 95, from filter c on.
Conv_db(o, dout, st, c) ==
    IF c >= o.n_F THEN st
    ELSE IF c >= dout.shape[2] THEN [st EXCEPT !.exc = "IndexError"]
    ELSE Conv_db(o, dout, [st EXCEPT !.bg.v[<<c, 0>>] = SumChannel(dout, c)], c + 1)

\* Conv.backward as it would be if it zeroed the weight gradient on entry.
Conv_backward_zeroing(o, hp, dout) ==
    IF o.cache = None
    THEN [self |-> o, heap |-> hp, ret |-> Raise("AttributeError")]
    ELSE
      LET X == o.cache
          W_rot == rot90(rot90(o.W.val))
          st0 == [Wg |-> Zeros(o.W.val.shape), bg |-> hp[o.b.grad], dX |-> Zeros(X.shape),
                  exc |-> ""]
          st1 == Conv_loop(o, X, dout, W_rot, st0, 0)
          st2 == IF st1.exc # "" THEN st1 ELSE Conv_db(o, dout, st1, 0)
          hp2 == [hp EXCEPT ![o.W.grad] = st2.Wg, ![o.b.grad] = st2.bg]
      IN  [self |-> o, heap |-> hp2,
           ret |-> IF st2.exc # "" THEN Raise(st2.exc)
                   ELSE Return3(st2.dX, o.W.grad, o.b.grad)]

\* Conv.backward(dout): the object, the heap and the result after the call.
Conv_backward(o, hp, dout) ==
    IF o.cache = None
    THEN [self |-> o, heap |-> hp, ret |-> Raise("AttributeError")]
    ELSE
      LET X == o.cache
          W_rot == rot90(rot90(o.W.val))
          st0 == [Wg |-> hp[o.W.grad], bg |-> hp[o.b.grad], dX |-> Zeros(X.shape), exc |-> ""]
          st1 == Conv_loop(o, X, dout, W_rot, st0, 0)
          st2 == IF st1.exc # "" THEN st1 ELSE Conv_db(o, dout, st1, 0)
          hp2 == [hp EXCEPT ![o.W.grad] = st2.Wg, ![o.b.grad] = st2.bg]
      IN  [self |-> o, heap |-> hp2,
           ret |-> IF st2.exc # "" THEN Raise(st2.exc)
                   ELSE Return3(st2.dX, o.W.grad, o.b.grad)]

(***************************************************************************)
(* Real numbers.  AvgPool, Fc, TanH and AdamGD divide, so their arrays     *)
(* hold exact fractions <<numerator, denominator>> in lowest terms with a  *)
(* positive denominator; <<0, 0>> is nan.                                  *)
(***************************************************************************)
Abs(n) == IF n < 0 THEN -n ELSE n

RECURSIVE GCD(_, _)
GCD(a, b) == IF b = 0 THEN a ELSE GCD(b, a % b)

\* The fraction n / d in lowest terms; x / 0 is nan.
Q(n, d) ==
    IF d = 0 THEN <<0, 0>>
    ELSE LET g == GCD(Abs(n), Abs(d))
         IN  IF d < 0 THEN <<(-n) \div g, (-d) \div g>> ELSE <<n \div g, d \div g>>

QInt(n) == <<n, 1>>

QAdd(x, y) == Q(x[1] * y[2] + y[1] * x[2], x[2] * y[2])

QSub(x, y) == Q(x[1] * y[2] - y[1] * x[2], x[2] * y[2])

QMul(x, y) == Q(x[1] * y[1], x[2] * y[2])

QDiv(x, y) == Q(x[1] * y[2], x[2] * y[1])

QAbs(x) == <<Abs(x[1]), x[2]>>

\* The root of a perfect square.
ISqrt(n) == CHOOSE r \in 0..n : r * r = n

\* np.sqrt of a fraction whose numerator and denominator are perfect squares.
QSqrt(x) == <<ISqrt(x[1]), ISqrt(x[2])>>

RECURSIVE QSumOver(_, _)
\* The sum of the fractions f over the index set S.
QSumOver(S, f) ==
    IF S = {} THEN QInt(0)
    ELSE LET x == CHOOSE y \in S : TRUE IN QAdd(f[x], QSumOver(S \ {x}, f))

\* The integer array a as an array of fractions.
QArr(a) == [a EXCEPT !.v = [ix \in DOMAIN a.v |-> QInt(a.v[ix])]]

\* np.mean(a): nan for an empty array.
Mean(a) == QDiv(QSumOver(Idx(a.shape), a.v), QInt(Cardinality(Idx(a.shape))))

(***************************************************************************)
(* AvgPool                                                                 *)
(***************************************************************************)
AvgPool_init(f, s) ==
    [self |-> [cls |-> "AvgPool", f |-> f, s |-> s, cache |-> None],
     heap |-> [r \in Refs |-> None]]

\* The output height or width AvgPool.forward computes for an input one of n_prev.
AvgPool_n_out(o, n_prev) == TruncDiv(n_prev - o.f, o.s) + 1

\* np.mean(X[i, :, h_start:h_end, w_start:w_end]), line 134: the mean of the
\* window over every channel, which every channel of the output cell receives.
AvgPool_cell(o, X, ix) ==
    Mean(Window(X, ix[1], ix[3] * o.s, ix[3] * o.s + o.f, ix[4] * o.s, ix[4] * o.s + o.f))

\* AvgPool.forward(X): np.zeros raises on a negative dimension, before the
\* cache is written on line 136.
AvgPool_forward(o, hp, X) ==
    LET shp == <<X.shape[1], X.shape[2],
                 AvgPool_n_out(o, X.shape[3]), AvgPool_n_out(o, X.shape[4])>>
    IN  IF shp[3] < 0 \/ shp[4] < 0
        THEN [self |-> o, heap |-> hp, ret |-> Raise("ValueError")]
        ELSE [self |-> [o EXCEPT !.cache = X], heap |-> hp,
              ret |-> Return([shape |-> shp, v |-> [ix \in Idx(shp) |-> AvgPool_cell(o, X, ix)]])]

\* np.copy(None): a 0-dimensional array of dtype object holding None.
ObjectArray == [shape |-> <<>>, v |-> [ix \in {<<>>} |-> None]]

\* One pass of the body of the loops of AvgPool.backward, lines 159 to 168.
AvgPool_body(o, dout, st, ix) ==
    LET i == ix[1]
        c == ix[2]
        h_start == ix[3] * o.s
        w_start == ix[4] * o.s
        h_end == h_start + o.f
        w_end == w_start + o.f
        average == QDiv(dout.v[ix], QInt(dout.shape[3] * dout.shape[4]))
    IN  IF Len(st.dX.shape) # 4 THEN [st EXCEPT !.exc = "IndexError"]
        ELSE IF i >= st.dX.shape[1] \/ c >= st.dX.shape[2] THEN [st EXCEPT !.exc = "IndexError"]
        ELSE LET rh == SliceLen(h_start, h_end, st.dX.shape[3])
                 rw == SliceLen(w_start, w_end, st.dX.shape[4])
             IN  IF ~((o.f = rh \/ o.f = 1) /\ (o.f = rw \/ o.f = 1))
                 THEN [st EXCEPT !.exc = "ValueError"]
                 ELSE [st EXCEPT !.dX.v = [jx \in DOMAIN st.dX.v |->
                         IF jx[1] = i /\ jx[2] = c /\ jx[3] >= h_start /\ jx[3] < h_end
                                      /\ jx[4] >= w_start /\ jx[4] < w_end
                         THEN QAdd(st.dX.v[jx], average)
                         ELSE st.dX.v[jx]]]

RECURSIVE AvgPool_loop(_, _, _, _)
\* The loops of AvgPool.backward from their n-th pass on, stopping where a pass raises.
AvgPool_loop(o, dout, st, n) ==
    IF st.exc # "" \/ n >= Cardinality(Idx(dout.shape)) THEN st
    ELSE AvgPool_loop(o, dout, AvgPool_body(o, dout, st, LoopIndex(dout.shape, n)), n + 1)

\* AvgPool.backward(dout)
AvgPool_backward(o, hp, dout) ==
    LET dX == IF o.cache = None THEN ObjectArray ELSE o.cache
        st == AvgPool_loop(o, dout, [dX |-> dX, exc |-> ""], 0)
    IN  [self |-> o, heap |-> hp,
         ret |-> IF st.exc # "" THEN Raise(st.exc) ELSE Return(st.dX)]

(***************************************************************************)
(* Fc                                                                      *)
(***************************************************************************)
\* The Python int 0 that Fc.__init__ stores as a gradient.
Scalar0 == [shape |-> <<>>, v |-> [ix \in {<<>>} |-> QInt(0)]]

\* Fc.__init__: the weight and bias values are the random draws.
Fc_init(row, column, Wval, bval) ==
    [self |-> [cls |-> "Fc", row |-> row, col |-> column,
               W |-> [val |-> Wval, grad |-> 1],
               b |-> [val |-> bval, grad |-> 2],
               cache |-> None],
     heap |-> [r \in Refs |-> IF r \in {1, 2} THEN Scalar0 ELSE None]]

\* np.dot(A, B) of two matrices with A.shape[1] = B.shape[0].
Dot(A, B) ==
    LET shp == <<A.shape[1], B.shape[2]>>
        K == 0..(A.shape[2] - 1)
    IN  [shape |-> shp,
         v |-> [ix \in Idx(shp) |->
                  QSumOver(K, [k \in K |-> QMul(A.v[<<ix[1], k>>], B.v[<<k, ix[2]>>])])]]

\* A.T of a matrix.
Transpose(A) ==
    LET shp == <<A.shape[2], A.shape[1]>>
    IN  [shape |-> shp, v |-> [ix \in Idx(shp) |-> A.v[<<ix[2], ix[1]>>]]]

\* k * A for a number k.
QScale(k, A) == [A EXCEPT !.v = [ix \in DOMAIN A.v |-> QMul(k, A.v[ix])]]

\* np.sum(A, axis = 0) of a matrix: one sum per column.
SumAxis0(A) ==
    LET R == 0..(A.shape[1] - 1)
    IN  [shape |-> <<A.shape[2]>>,
         v |-> [ix \in Idx(<<A.shape[2]>>) |-> QSumOver(R, [r \in R |-> A.v[<<r, ix[1]>>]])]]

\* Fc.forward(fc): np.dot(W, fc) + b, the bias broadcast along the columns.
Fc_forward(o, hp, fc) ==
    LET o1 == [o EXCEPT !.cache = fc]
        prod == Dot(o.W.val, fc)
    IN  IF o.W.val.shape[2] # fc.shape[1]
        THEN [self |-> o1, heap |-> hp, ret |-> Raise("ValueError")]
        ELSE [self |-> o1, heap |-> hp,
              ret |-> Return([prod EXCEPT !.v = [ix \in DOMAIN prod.v |->
                                QAdd(prod.v[ix], o.b.val.v[<<ix[1], 0>>])]])]

\* The references of the two arrays a backward call of Fc creates: any two
\* that the caller does not hold.
NewRefs(k) ==
    LET held == IF k = None THEN {} ELSE {k.dW, k.db}
        r1 == CHOOSE r \in Refs \ held : \A q \in Refs \ held : r <= q
        r2 == CHOOSE r \in Refs \ (held \cup {r1}) : \A q \in Refs \ (held \cup {r1}) : r <= q
    IN  <<r1, r2>>

\* The heap with the arrays that neither the object nor the caller refers to dropped.
Collect(hp, o, k) ==
    LET live == {o.W.grad, o.b.grad} \cup (IF k = None THEN {} ELSE {k.dW, k.db})
    IN  [r \in Refs |-> IF r \in live THEN hp[r] ELSE None]

\* Fc.backward(deltaL); k is what the caller holds.
Fc_backward(o, hp, deltaL, k) ==
    IF o.cache = None
    THEN [self |-> o, heap |-> hp, ret |-> Raise("AttributeError")]
    ELSE
      LET fc == o.cache
          m == fc.shape[1]
          new == NewRefs(k)
          o1 == [o EXCEPT !.W.grad = new[1], !.b.grad = new[2]]
      IN  IF m = 0
          THEN [self |-> o, heap |-> hp, ret |-> Raise("ZeroDivisionError")]
          ELSE IF deltaL.shape[2] # fc.shape[2]
          THEN [self |-> o, heap |-> hp, ret |-> Raise("ValueError")]
          ELSE
            LET hp1 == [hp EXCEPT ![new[1]] = QScale(Q(1, m), Dot(deltaL, Transpose(fc))),
                                  ![new[2]] = QScale(Q(1, m), SumAxis0(deltaL))]
                hp2 == Collect(hp1, o1, k)
            IN  IF o.W.val.shape[1] # deltaL.shape[1]
                THEN [self |-> o1, heap |-> hp2, ret |-> Raise("ValueError")]
                ELSE [self |-> o1, heap |-> hp2,
                      ret |-> Return3(Dot(Transpose(o.W.val), deltaL), new[1], new[2])]

(***************************************************************************)
(* TanH                                                                    *)
(***************************************************************************)
\* TanH.__init__ with the default alpha.
TanH_init ==
    [self |-> [cls |-> "TanH", alpha |-> Q(17159, 10000), cache |-> None],
     heap |-> [r \in Refs |-> None]]

\* np.tanh at the one argument where it is a fraction.
tanh(x) == CASE x = QInt(0) -> QInt(0)

\* TanH.forward(X)
TanH_forward(o, hp, X) ==
    [self |-> [o EXCEPT !.cache = X], heap |-> hp,
     ret |-> Return([X EXCEPT !.v = [ix \in DOMAIN X.v |-> QMul(o.alpha, tanh(X.v[ix]))]])]

\* TanH.backward(new_deltaL): np.tanh(None) raises.
TanH_backward(o, hp, new_deltaL) ==
    IF o.cache = None
    THEN [self |-> o, heap |-> hp, ret |-> Raise("TypeError")]
    ELSE [self |-> o, heap |-> hp,
          ret |-> Return([new_deltaL EXCEPT !.v = [ix \in DOMAIN new_deltaL.v |->
                    QMul(new_deltaL.v[ix],
                         QSub(QInt(1), QMul(tanh(o.cache.v[ix]), tanh(o.cache.v[ix]))))]])]

(***************************************************************************)
(* AdamGD.  Every update is elementwise, so each parameter is one number.  *)
(***************************************************************************)
ParamKeys == {"W1", "W2", "W3", "W4", "W5", "b1", "b2", "b3", "b4", "b5"}

\* The key of grads that holds the gradient of a parameter.
GradKey == [k \in ParamKeys |->
    CASE k = "W1" -> "dW1" [] k = "W2" -> "dW2" [] k = "W3" -> "dW3" [] k = "W4" -> "dW4"
      [] k = "W5" -> "dW5" [] k = "b1" -> "db1" [] k = "b2" -> "db2" [] k = "b3" -> "db3"
      [] k = "b4" -> "db4" [] k = "b5" -> "db5"]

\* AdamGD.__init__: vd holds vdW1 .. vdb5, sd holds sdW1 .. sdb5.
AdamGD_init(lr, beta1, beta2, epsilon, params) ==
    [self |-> [cls |-> "AdamGD", lr |-> lr, beta1 |-> beta1, beta2 |-> beta2,
               epsilon |-> epsilon, params |-> params,
               vd |-> [k \in ParamKeys |-> QInt(0)],
               sd |-> [k \in ParamKeys |-> QInt(0)]],
     heap |-> [r \in Refs |-> None]]

\* The momentum update, lines 249 to 259.
Adam_vd(o, grads) ==
    [k \in ParamKeys |-> QAdd(QMul(o.beta1, o.vd[k]),
                              QMul(QSub(QInt(1), o.beta1), grads[GradKey[k]]))]

\* The RMSprop update, lines 262 to 272.
Adam_sd(o, grads) ==
    [k \in ParamKeys |-> QAdd(QMul(o.beta2, o.sd[k]),
                              QMul(QSub(QInt(1), o.beta2),
                                   QMul(grads[GradKey[k]], grads[GradKey[k]])))]

\* The parameter update, lines 275 to 285, from the moments vd and sd.
Adam_params(o, vd, sd) ==
    [k \in ParamKeys |->
        QSub(o.params[k], QDiv(QMul(o.lr, vd[k]), QAdd(QSqrt(sd[k]), o.epsilon)))]

\* update_params as it would be if it updated the parameters before the moments.
update_params_stale(o, hp, grads) ==
    LET params == Adam_params(o, o.vd, o.sd)
    IN  [self |-> [o EXCEPT !.vd = Adam_vd(o, grads), !.sd = Adam_sd(o, grads),
                            !.params = params],
         heap |-> hp, ret |-> Return(params)]

\* AdamGD.update_params(grads): returns self.params.
update_params(o, hp, grads) ==
    LET vd == Adam_vd(o, grads)
        sd == Adam_sd(o, grads)
        params == Adam_params(o, vd, sd)
    IN  [self |-> [o EXCEPT !.vd = vd, !.sd = sd, !.params = params], heap |-> hp,
         ret |-> Return(params)]

(***************************************************************************)
(* The arguments the caller passes.                                        *)
(***************************************************************************)
\* An integer array of the given shape; the seed varies its elements.
Fill(shape, seed) ==
    [shape |-> shape,
     v |-> [ix \in Idx(shape) |->
              ((seed + SumOver(DOMAIN ix, [d \in DOMAIN ix |-> <<4, 2, 1, 3>>[d] * ix[d]])) % 7) - 2]]

\* shape with its d-th entry changed by k.
Bump(shape, d, k) == [shape EXCEPT ![d] = shape[d] + k]

\* The Conv layers constructed.
ConvObjs ==
    {Conv_init(n_F, g[1], n_C, g[2], g[3], Fill(<<n_F, n_C, g[1], g[1]>>, 3), Fill(<<n_F, 1>>, 1)) :
        n_F \in 1..2, n_C \in 1..2, g \in {<<2, 1, 0>>, <<1, 1, 0>>, <<2, 2, 0>>, <<2, 2, 1>>, <<2, 1, 1>>, <<1, 1, 1>>}}

\* The inputs passed to Conv.forward.
ConvInputs(o) == {Fill(<<g[1], o.n_C, g[2], g[3]>>, 2) : g \in {<<1, 2, 2>>, <<2, 3, 2>>, <<1, 3, 3>>}}

\* The shape [batch, filter_count, H_out, W_out] of the output for the cached input.
ConvOutShape(o) ==
    <<o.cache.shape[1], o.n_F, Conv_n_out(o, o.cache.shape[3]), Conv_n_out(o, o.cache.shape[4])>>

\* The upstream gradients passed to Conv.backward: of the shape of the output
\* for the cached input, and of that shape with one axis one longer or shorter.
ConvDouts(o) ==
    IF o.cache = None THEN {Fill(<<1, o.n_F, 1, 1>>, 4)}
    ELSE LET E == ConvOutShape(o)
             shapes == {E, Bump(E, 1, -1), Bump(E, 1, 1), Bump(E, 2, -1), Bump(E, 3, 1),
                        Bump(E, 4, -1)}
         IN  {Fill(shp, 4) : shp \in {x \in shapes : \A d \in 1..4 : x[d] >= 1}}

\* The AvgPool layers constructed.
AvgPoolObjs == {AvgPool_init(g[1], g[2]) : g \in {<<1, 1>>, <<2, 1>>, <<2, 2>>}}

\* The inputs passed to AvgPool.forward.
AvgPoolInputs(o) ==
    {QArr(Fill(shp, 2)) : shp \in {<<1, 1, 2, 2>>, <<1, 2, 2, 3>>, <<2, 2, 3, 2>>}}

\* The upstream gradients passed to AvgPool.backward.
AvgPoolDouts(o) ==
    IF o.cache = None THEN {QArr(Fill(shp, 4)) : shp \in {<<1, 1, 1, 1>>, <<0, 1, 1, 1>>}}
    ELSE LET X == o.cache
             E == <<X.shape[1], X.shape[2], AvgPool_n_out(o, X.shape[3]),
                    AvgPool_n_out(o, X.shape[4])>>
         IN  {QArr(Fill(shp, 4)) : shp \in {E, Bump(E, 1, -1), Bump(E, 3, 1)}}

\* The Fc layers constructed.
FcObjs ==
    {Fc_init(g[1], g[2], QArr(Fill(<<g[1], g[2]>>, 3)), QArr(Fill(<<g[1], 1>>, 1))) :
        g \in {<<1, 1>>, <<2, 1>>, <<1, 2>>, <<2, 3>>}}

\* The inputs passed to Fc.forward: one column per example.
FcInputs(o) == {QArr(Fill(shp, 2)) : shp \in {<<o.col, 1>>, <<o.col, 2>>, <<o.col + 1, 1>>}}

\* The upstream gradients passed to Fc.backward.
FcDeltas(o) ==
    IF o.cache = None THEN {QArr(Fill(<<o.row, 1>>, 4))}
    ELSE LET E == <<o.row, o.cache.shape[2]>>
         IN  {QArr(Fill(shp, seed)) : shp \in {E, Bump(E, 1, 1), Bump(E, 2, 1)}, seed \in {4, 5}}

\* The inputs passed to TanH.forward.
TanHInputs == {QArr(Zeros(shp)) : shp \in {<<1, 2>>, <<2, 2>>}}

\* The upstream gradients passed to TanH.backward.
TanHDeltas(o) ==
    {QArr(Fill(IF o.cache = None THEN <<1, 2>> ELSE o.cache.shape, seed)) : seed \in {4, 5}}

\* The optimizers constructed.
AdamGDObjs ==
    {AdamGD_init(Q(1, 2), beta1, beta2, QInt(1),
                 [k \in ParamKeys |-> IF k \in {"W1", "W3", "b2"} THEN QInt(1) ELSE Q(-1, 2)]) :
        beta1 \in {QInt(0), Q(1, 2)}, beta2 \in {QInt(0), QInt(1)}}

\* The gradient mappings passed to AdamGD.update_params.
AdamGrads ==
    {[d \in {GradKey[k] : k \in ParamKeys} |->
        IF d \in {"dW1", "dW2", "dW3", "dW4", "dW5"} THEN QInt(g[1]) ELSE QInt(g[2])] :
        g \in {-2, 0, 3} \X {-1, 0, 2}}

(***************************************************************************)
(* The caller.                                                             *)
(***************************************************************************)
\* What the caller holds after a backward call: the first tuple returned stays.
Keep(k, r, hp) ==
    IF k = None /\ r.kind = "ok"
    THEN [dX |-> r.val, dW |-> r.dW, db |-> r.db,
          vW |-> IF r.dW = NoRef THEN None ELSE hp[r.dW],
          vb |-> IF r.db = NoRef THEN None ELSE hp[r.db]]
    ELSE k

\* The record of the backward calls: <<cache, argument>> of each, and whether
\* every one of them returned.
Record(h, o, arg, r) ==
    [ok |-> h.ok /\ r.kind = "ok", calls |-> Append(h.calls, <<o.cache, arg>>)]

\* The state after a call of method op with argument arg whose outcome is r.
Called(op, arg, r) ==
    /\ self' = r.self
    /\ heap' = r.heap
    /\ ret' = r.ret
    /\ call' = [op |-> op, arg |-> arg]
    /\ ncalls' = ncalls + 1
    /\ old' = [self |-> self, heap |-> heap]
    /\ hist' = IF op = "backward" THEN Record(hist, self, arg, r.ret) ELSE hist
    /\ kept' = IF op = "backward" THEN Keep(kept, r.ret, r.heap) ELSE kept

ConvForward ==
    /\ self.cls = "Conv"
    /\ ncalls < MaxCalls
    /\ \E X \in ConvInputs(self) : Called("forward", X, Conv_forward(self, heap, X))

ConvBackward ==
    /\ self.cls = "Conv"
    /\ ncalls < MaxCalls
    /\ \E dout \in ConvDouts(self) : Called("backward", dout, Conv_backward(self, heap, dout))

AvgPoolForward ==
    /\ self.cls = "AvgPool"
    /\ ncalls < MaxCalls
    /\ \E X \in AvgPoolInputs(self) : Called("forward", X, AvgPool_forward(self, heap, X))

AvgPoolBackward ==
    /\ self.cls = "AvgPool"
    /\ ncalls < MaxCalls
    /\ \E dout \in AvgPoolDouts(self) :
          Called("backward", dout, AvgPool_backward(self, heap, dout))

FcForward ==
    /\ self.cls = "Fc"
    /\ ncalls < MaxCalls
    /\ \E fc \in FcInputs(self) : Called("forward", fc, Fc_forward(self, heap, fc))

FcBackward ==
    /\ self.cls = "Fc"
    /\ ncalls < MaxCalls
    /\ \E deltaL \in FcDeltas(self) :
          Called("backward", deltaL, Fc_backward(self, heap, deltaL, kept))

TanHForward ==
    /\ self.cls = "TanH"
    /\ ncalls < MaxCalls
    /\ \E X \in TanHInputs : Called("forward", X, TanH_forward(self, heap, X))

TanHBackward ==
    /\ self.cls = "TanH"
    /\ ncalls < MaxCalls
    /\ \E g \in TanHDeltas(self) : Called("backward", g, TanH_backward(self, heap, g))

AdamUpdate ==
    /\ self.cls = "AdamGD"
    /\ ncalls < MaxCalls
    /\ \E grads \in AdamGrads : Called("update_params", grads, update_params(self, heap, grads))

Init ==
    /\ \E c \in ConvObjs \cup AvgPoolObjs \cup FcObjs \cup {TanH_init} \cup AdamGDObjs :
          self = c.self /\ heap = c.heap
    /\ ret = NoCall
    /\ call = [op |-> "init", arg |-> None]
    /\ ncalls = 0
    /\ old = [self |-> self, heap |-> heap]
    /\ hist = [ok |-> TRUE, calls |-> <<>>]
    /\ kept = None

Next ==
    \/ ConvForward
    \/ ConvBackward
    \/ AvgPoolForward
    \/ AvgPoolBackward
    \/ FcForward
    \/ FcBackward
    \/ TanHForward
    \/ TanHBackward
    \/ AdamUpdate

Spec == Init /\ [][Next]_vars

(***************************************************************************)
(* The claims.                                                             *)
(***************************************************************************)
Layers == {"Conv", "AvgPool", "Fc", "TanH"}

\* The last call was a backward call and no forward call came before it.
FreshBackward == call.op = "backward" /\ Len(hist.calls) = ncalls

\* C1: for Conv, AvgPool, Fc and TanH, a backward call on a layer on which
\* forward was never called (the cache is absent) raises; it returns nothing.
C1_FreshBackwardRaises ==
    (self.cls \in Layers /\ FreshBackward /\ old.self.cache = None) => ret.kind = "error"

\* What Conv.forward did on the input that was cached when the last call began.
ConvCachedForward == Conv_forward(old.self, old.heap, old.self.cache).ret

\* The last call was Conv.backward on a layer whose forward had returned an output.
ConvBackwardAfterForward ==
    /\ self.cls = "Conv"
    /\ call.op = "backward"
    /\ old.self.cache # None
    /\ ConvCachedForward.kind = "ok"

\* C2: Conv.backward(dout) after forward(X) raises whenever the shape of dout
\* differs from the shape of the output forward produced for the cached X,
\* and then leaves the weight and bias gradients as they were.
C2_MismatchRaises ==
    (ConvBackwardAfterForward /\ call.arg.shape # ConvCachedForward.val.shape)
        => /\ ret.kind = "error"
           /\ heap[self.W.grad] = old.heap[old.self.W.grad]
           /\ heap[self.b.grad] = old.heap[old.self.b.grad]

\* floor((n_in + 2p - f) / s) + 1
FloorOut(o, n_in) == ((n_in + 2 * o.p - o.f) \div o.s) + 1

\* C3: for stride >= 1, padding >= 0 and an input [m, C, H, W] with H + 2p >= f
\* and W + 2p >= f, Conv.forward returns an array of shape
\* [m, filter_count, floor((H + 2p - f)/s) + 1, floor((W + 2p - f)/s) + 1].
C3_ForwardShape ==
    (/\ self.cls = "Conv"
     /\ call.op = "forward"
     /\ call.arg.shape[3] + 2 * self.p >= self.f
     /\ call.arg.shape[4] + 2 * self.p >= self.f)
        => /\ ret.kind = "ok"
           /\ ret.val.shape = <<call.arg.shape[1], self.n_F,
                                FloorOut(self, call.arg.shape[3]),
                                FloorOut(self, call.arg.shape[4])>>

\* The mean of the f * f values X[i, c, h*s : h*s+f, w*s : w*s+f] of channel c.
ChannelMean(o, X, ix) ==
    LET F == (0..(o.f - 1)) \X (0..(o.f - 1))
    IN  QDiv(QSumOver(F, [t \in F |-> X.v[<<ix[1], ix[2], ix[3] * o.s + t[1],
                                            ix[4] * o.s + t[2]>>]]),
             QInt(o.f * o.f))

\* C4: every cell [i, c, h, w] of the output of AvgPool.forward(X) is the
\* mean of the window of channel c alone.
C4_PerChannelMean ==
    (self.cls = "AvgPool" /\ call.op = "forward" /\ ret.kind = "ok")
        => \A ix \in Idx(ret.val.shape) : ret.val.v[ix] = ChannelMean(self, call.arg, ix)

\* sum(dout * out) for integer arrays of one shape.
Loss(dout, out) == SumOver(Idx(out.shape), [ix \in Idx(out.shape) |-> dout.v[ix] * out.v[ix]])

\* sum(dout * out) for arrays of fractions of one shape.
QLoss(dout, out) ==
    QSumOver(Idx(out.shape), [ix \in Idx(out.shape) |-> QMul(dout.v[ix], out.v[ix])])

\* L = sum(dout * forward(X)) of each layer.  L is affine in X, in the weight
\* and in the bias, so its derivative is its difference over a unit step.
ConvL(o, X, dout) == Loss(dout, Conv_forward(o, heap, X).ret.val)

AvgPoolL(o, X, dout) == QLoss(dout, AvgPool_forward(o, heap, X).ret.val)

FcL(o, X, dout) == QLoss(dout, Fc_forward(o, heap, X).ret.val)

\* A with the element at ix one larger.
Step(A, ix) == [A EXCEPT !.v[ix] = @ + 1]

QStep(A, ix) == [A EXCEPT !.v[ix] = QAdd(@, QInt(1))]

\* The derivatives of L for the Conv layer o, input X and upstream gradient dout.
ConvDX(o, X, dout) ==
    [X EXCEPT !.v = [ix \in DOMAIN X.v |-> ConvL(o, Step(X, ix), dout) - ConvL(o, X, dout)]]

ConvDW(o, X, dout) ==
    [o.W.val EXCEPT !.v = [ix \in DOMAIN o.W.val.v |->
        ConvL([o EXCEPT !.W.val = Step(o.W.val, ix)], X, dout) - ConvL(o, X, dout)]]

ConvDb(o, X, dout) ==
    [o.b.val EXCEPT !.v = [ix \in DOMAIN o.b.val.v |->
        ConvL([o EXCEPT !.b.val = Step(o.b.val, ix)], X, dout) - ConvL(o, X, dout)]]

\* The derivatives of L for the Fc layer o.
FcDX(o, X, dout) ==
    [X EXCEPT !.v = [ix \in DOMAIN X.v |->
        QSub(FcL(o, QStep(X, ix), dout), FcL(o, X, dout))]]

FcDW(o, X, dout) ==
    [o.W.val EXCEPT !.v = [ix \in DOMAIN o.W.val.v |->
        QSub(FcL([o EXCEPT !.W.val = QStep(o.W.val, ix)], X, dout), FcL(o, X, dout))]]

FcDb(o, X, dout) ==
    [o.b.val EXCEPT !.v = [ix \in DOMAIN o.b.val.v |->
        QSub(FcL([o EXCEPT !.b.val = QStep(o.b.val, ix)], X, dout), FcL(o, X, dout))]]

\* The derivative of L for the AvgPool layer o.
AvgPoolDX(o, X, dout) ==
    [X EXCEPT !.v = [ix \in DOMAIN X.v |->
        QSub(AvgPoolL(o, QStep(X, ix), dout), AvgPoolL(o, X, dout))]]

\* The last call was a backward call that returned, on a layer whose forward
\* returns, for the cached input, an output of the shape of the upstream gradient.
GradientChecked(fwd) ==
    /\ call.op = "backward"
    /\ ret.kind = "ok"
    /\ old.self.cache # None
    /\ fwd.kind = "ok"
    /\ fwd.val.shape = call.arg.shape

\* C5: with the gradient buffers zero before the call, the gradients that
\* backward(dout) returns after forward(X) are the derivatives of
\* L = sum(dout * forward(X)) with respect to X, the weight and the bias.
C5_GradientCheck ==
    /\ (/\ self.cls = "Conv"
        /\ GradientChecked(Conv_forward(old.self, old.heap, old.self.cache).ret)
        /\ old.heap[old.self.W.grad] = Zeros(self.W.val.shape)
        /\ old.heap[old.self.b.grad] = Zeros(self.b.val.shape))
           => /\ ret.val = ConvDX(self, self.cache, call.arg)
              /\ heap[ret.dW] = ConvDW(self, self.cache, call.arg)
              /\ heap[ret.db] = ConvDb(self, self.cache, call.arg)
    /\ (/\ self.cls = "Fc"
        /\ GradientChecked(Fc_forward(old.self, old.heap, old.self.cache).ret))
           => /\ ret.val = FcDX(self, self.cache, call.arg)
              /\ heap[ret.dW] = FcDW(self, self.cache, call.arg)
              /\ heap[ret.db] = FcDb(self, self.cache, call.arg)
    /\ (/\ self.cls = "AvgPool"
        /\ GradientChecked(AvgPool_forward(old.self, old.heap, old.self.cache).ret))
           => ret.val = AvgPoolDX(self, self.cache, call.arg)

\* C6: with beta1 = beta2 = 0, update_params replaces each of the ten
\* parameters by param - lr * grad / (|grad| + epsilon) for the gradient of
\* that call alone, and the moments it leaves are those of that call.
C6_AdamZeroBetas ==
    (/\ self.cls = "AdamGD"
     /\ call.op = "update_params"
     /\ self.beta1 = QInt(0)
     /\ self.beta2 = QInt(0))
        => \A k \in ParamKeys :
              LET g == call.arg[GradKey[k]]
              IN  /\ self.params[k] =
                        QSub(old.self.params[k],
                             QDiv(QMul(self.lr, g), QAdd(QAbs(g), self.epsilon)))
                  /\ self.vd[k] = g
                  /\ self.sd[k] = QMul(g, g)
                  /\ ret.val = self.params

\* A second update with beta1 = beta2 = 0 whose gradients differ from the first
\* call's and move the parameters.
C6_Witness ==
    /\ self.cls = "AdamGD"
    /\ self.beta1 = QInt(0)
    /\ self.beta2 = QInt(0)
    /\ ncalls = 2
    /\ call.arg["dW1"] # QInt(0)
    /\ old.self.vd["W1"] # QInt(0)
    /\ old.self.vd["W1"] # call.arg["dW1"]
    /\ self.params["W1"] # old.self.params["W1"]

\* C7: in every state of a Conv or Fc layer the weight gradient has the shape
\* of the weight value and the bias gradient the shape of the bias value.
C7_GradShapes ==
    self.cls \in {"Conv", "Fc"}
        => /\ heap[self.W.grad].shape = self.W.val.shape
           /\ heap[self.b.grad].shape = self.b.val.shape

\* What one call of Conv.backward with input X and upstream gradient dout adds
\* to the weight gradient.
ConvContribution(o, X, dout) ==
    LET P == {ix \in Idx(dout.shape) : ix[2] = 0}
    IN  [o.W.val EXCEPT !.v = [wx \in DOMAIN o.W.val.v |->
            SumOver(P, [ix \in P |->
                dout.v[<<ix[1], wx[1], ix[3], ix[4]>>]
                    * X.v[<<ix[1], wx[2], ix[3] * o.s + wx[3], ix[4] * o.s + wx[4]>>]])]]

RECURSIVE ConvContributions(_, _, _)
\* The sum of the contributions of the first n calls of calls.
ConvContributions(o, calls, n) ==
    IF n = 0 THEN Zeros(o.W.val.shape)
    ELSE LET rest == ConvContributions(o, calls, n - 1)
             this == ConvContribution(o, calls[n][1], calls[n][2])
         IN  [rest EXCEPT !.v = [wx \in DOMAIN rest.v |-> rest.v[wx] + this.v[wx]]]

\* The last call was a backward call and it returned.
BackwardReturned == call.op = "backward" /\ ret.kind = "ok"

\* C8: a backward call that returns leaves in the Fc weight and bias
\* gradients and in the Conv bias gradient the values of that call alone, and
\* adds its contribution to the Conv weight gradient, which Conv.backward
\* never zeroes: while every backward call returned, the Conv weight gradient
\* is the sum of the contributions of all of them since it was last zero (at
\* construction).
C8_OverwriteOrAccumulate ==
    /\ (self.cls = "Conv" /\ BackwardReturned)
          => LET before == old.heap[old.self.W.grad]
                 this == ConvContribution(self, old.self.cache, call.arg)
             IN  /\ heap[self.W.grad] =
                       [before EXCEPT !.v = [wx \in DOMAIN before.v |-> before.v[wx] + this.v[wx]]]
                 /\ \A c \in 0..(self.n_F - 1) :
                       heap[self.b.grad].v[<<c, 0>>] = SumChannel(call.arg, c)
    /\ (self.cls = "Conv" /\ hist.ok)
          => heap[self.W.grad] = ConvContributions(self, hist.calls, Len(hist.calls))
    /\ (self.cls = "Fc" /\ BackwardReturned)
          => LET x == old.self.cache
                 d == call.arg
                 m == x.shape[1]
                 N == 0..(d.shape[2] - 1)
                 R == 0..(d.shape[1] - 1)
             IN  /\ heap[self.W.grad].shape = <<d.shape[1], x.shape[1]>>
                 /\ \A ix \in Idx(<<d.shape[1], x.shape[1]>>) :
                       heap[self.W.grad].v[ix] =
                          QDiv(QSumOver(N, [n \in N |-> QMul(d.v[<<ix[1], n>>], x.v[<<ix[2], n>>])]),
                               QInt(m))
                 /\ heap[self.b.grad].shape = <<d.shape[2]>>
                 /\ \A n \in N :
                       heap[self.b.grad].v[<<n>>] =
                          QDiv(QSumOver(R, [r \in R |-> d.v[<<r, n>>]]), QInt(m))

\* Two backward calls on a Conv layer returned and each added to the weight
\* gradient, while the bias gradient is the second call's.
C8_Witness ==
    /\ self.cls = "Conv"
    /\ hist.ok
    /\ Len(hist.calls) = 2
    /\ BackwardReturned
    /\ heap[self.W.grad] # ConvContribution(self, old.self.cache, call.arg)
    /\ heap[self.W.grad] # ConvContribution(self, hist.calls[1][1], hist.calls[1][2])
    /\ heap[self.b.grad] # Zeros(self.b.val.shape)

\* The input gradient that kernels rotated by 180 degrees in their two spatial
\* axes give: each dout[i, c, h, w] times W[c, k, f-1-a, f-1-b] added at
\* (h*s + a, w*s + b) of channel k.
SpatialRotDX(o, X, dout) ==
    [X EXCEPT !.v = [jx \in DOMAIN X.v |->
        LET P == {ix \in Idx(dout.shape) :
                    /\ ix[1] = jx[1]
                    /\ jx[3] - ix[3] * o.s \in 0..(o.f - 1)
                    /\ jx[4] - ix[4] * o.s \in 0..(o.f - 1)}
        IN  SumOver(P, [ix \in P |->
                dout.v[ix] * o.W.val.v[<<ix[2], jx[2], o.f - 1 - (jx[3] - ix[3] * o.s),
                                         o.f - 1 - (jx[4] - ix[4] * o.s)>>]])]]

\* C9: the kernel that Conv.backward multiplies by dout[i, c, h, w] and adds
\* to the window of channel k of the input gradient is W[c, k] rotated by 180
\* degrees in its two spatial axes.
C9_SpatialRotation ==
    (ConvBackwardAfterForward /\ ret.kind = "ok"
        /\ call.arg.shape = ConvCachedForward.val.shape)
        => ret.val = SpatialRotDX(self, self.cache, call.arg)

\* C10: the gradients a backward call returned keep the values they had when
\* returned through every later call on the layer.
C10_ReturnedKeepValues ==
    (self.cls \in {"Conv", "Fc", "AvgPool"} /\ kept # None /\ kept.dW # NoRef)
        => /\ heap[kept.dW] = kept.vW
           /\ heap[kept.db] = kept.vb


====
